---- MODULE Spec2Model ----
(***************************************************************************)
(* Cursor project launcher: the mutation server (server.py) and the        *)
(* dashboard grouper (generate_dashboard.py).                              *)
(*                                                                         *)
(* Paths are small integers.  NoPath stands for the empty string that      *)
(* query.get('path', [''])[0] yields when the parameter is missing or      *)
(* blank.  A JSON file on disk is a record [st, data]: st is "absent",     *)
(* "garbage" (present but json.load raises), "json" (data is the list) or  *)
(* one of the conditions of a file that cannot be read or written.         *)
(***************************************************************************)
EXTENDS Integers, Sequences, FiniteSets, TLC

\* ---- bounds ----
NumPaths == 2
MaxTime == 1
NumFresh == 1
MaxVaried == 2
MaxMtime == 2
MaxCatFolders == 3
MaxChildren == 2

\* ---- program constants ----
MAX_RECENT == 20
NoPath == 0
\* MAX_RECENT of generate_dashboard.py (server.py has its own MAX_RECENT)
DASHBOARD_MAX_RECENT == 10
\* cursor_recent_idx = None
NoneIdx == -1

\* File and folder names are numbers below NameBase.  The names of
\* MAIN_CATEGORIES are 91 .. 95 (RESEARCH, TEACHING, TOOLS, PUZZLES, HARDWARE,
\* in the order of the list), the eleven names of IGNORE_FOLDERS are 80 .. 90
\* (.DS_Store, .cursor, .env, .git, .vscode, __pycache__, build, dist, env,
\* node_modules, venv), every other name is an ordinary folder name: 1, 2, ..
\* stand for p01, p02, ..
\* A path is the number PathOf(parent, name): CODING_ROOT / name for a child
\* of the root, CODING_ROOT / category / name for a child of a category.
NameBase == 100
CODING_ROOT == 0
RESEARCH == 91
TEACHING == 92
TOOLS == 93
PUZZLES == 94
HARDWARE == 95
OTHER_CATEGORY == 99
MAIN_CATEGORIES == <<RESEARCH, TEACHING, TOOLS, PUZZLES, HARDWARE>>
IGNORE_FOLDERS == 80 .. 90

Paths == NoPath .. NumPaths
Times == 0 .. MaxTime
LaunchOutcomes == {"spawned", "FileNotFoundError", "OSError"}

VARIABLES
    pinnedFile,   \* PINNED_FILE (pinned.json)
    recentFile,   \* RECENT_FILE (recent.json)
    req,          \* the request handled last
    resp,         \* the response sent for it ([code |-> 0] when none was sent)
    spawn,        \* the subprocess.Popen call made while handling it
    prev,         \* the two files as they were when that request arrived
    sameAsLast,   \* whether that request repeats the one handled before it
    folders,      \* the project folders on disk, in the order the scan meets them
    cursor_recent,    \* load_cursor_recent(): the editor's recent workspaces
    projects,         \* find_all_projects(): the scan result
    pinned_projects,  \* generate_html: the pinned row
    recent_projects,  \* generate_html: the recent row
    category_rows,    \* generate_html: the category rows, in display order
    dashboardFile,    \* OUTPUT_FILE (dashboard.html)
    pc,               \* where generate_dashboard.main() is
    inflight          \* handler executions that run side by side, and their steps

serverVars == <<pinnedFile, recentFile, req, resp, spawn, prev, sameAsLast>>
dashVars == <<folders, cursor_recent, projects, pinned_projects, recent_projects,
              category_rows, dashboardFile, pc>>
vars == <<pinnedFile, recentFile, req, resp, spawn, prev, sameAsLast,
          folders, cursor_recent, projects, pinned_projects, recent_projects,
          category_rows, dashboardFile, pc, inflight>>

\* ---- helpers over Python lists ----
Min(a, b) == IF a <= b THEN a ELSE b

Range(s) == {s[i] : i \in 1 .. Len(s)}

\* x in s
InList(x, s) == \E i \in 1 .. Len(s) : s[i] = x

\* s.remove(x): drops the first occurrence of x (x is known to be in s)
ListRemove(s, x) ==
    LET i == CHOOSE k \in 1 .. Len(s) : s[k] = x /\ \A j \in 1 .. k - 1 : s[j] # x
    IN  SubSeq(s, 1, i - 1) \o SubSeq(s, i + 1, Len(s))

\* s[:n]
Take(s, n) == SubSeq(s, 1, Min(Len(s), n))

NoDup(s) == \A i, j \in 1 .. Len(s) : s[i] = s[j] => i = j

PathsOf(log) == [i \in 1 .. Len(log) |-> log[i].path]

\* ---- files ----
AbsentFile == [st |-> "absent", data |-> <<>>]
JsonFile(list) == [st |-> "json", data |-> list]

\* "x = []; if FILE.exists(): try: x = json.load(f) except: pass"
LoadList(file) == IF file.st \in {"json", "readonly"} THEN file.data ELSE <<>>

\* a file that json.load rejects; a file that cannot be opened for reading
\* but can be opened for writing (data is the list its text holds); a file
\* that can be opened for neither; a directory of that name
GarbageFile == [st |-> "garbage", data |-> <<>>]
UnreadableFile == [st |-> "unreadable", data |-> <<>>]
NoAccessFile == [st |-> "noaccess", data |-> <<>>]
DirectoryFile == [st |-> "directory", data |-> <<>>]

\* a file that can be opened for reading but not for writing: one that holds
\* a list, one that json.load rejects; no file, in a directory that allows no
\* new file
ReadOnlyFile(list) == [st |-> "readonly", data |-> list]
ReadOnlyGarbageFile == [st |-> "readonly_garbage", data |-> <<>>]
UncreatableFile == [st |-> "uncreatable", data |-> <<>>]

\* whether "with open(FILE, 'w')" succeeds
Writable(file) ==
    file.st \notin {"noaccess", "directory", "readonly", "readonly_garbage", "uncreatable"}

\* the file after open(FILE, 'a') and json.dump: the text is added to what
\* the file held
WriteList_appends(file, list) ==
    IF file.st = "absent" THEN JsonFile(list)
    ELSE IF file.st = "unreadable" THEN UnreadableFile
    ELSE GarbageFile

\* "with open(FILE, 'w') as f: json.dump(list, f, indent=2)": the file holds
\* the list and keeps its mode, so a file that could not be read still cannot
WriteList(file, list) ==
    IF file.st = "unreadable" THEN [st |-> "unreadable", data |-> list]
    ELSE JsonFile(list)

\* ---- responses ----
NoResponse == [code |-> 0]
JsonResponse(code, body) == [code |-> code, body |-> body]

NoSpawn == [invoked |-> FALSE]

\* ---- toggle_pin(path): the list written back and the value returned ----
toggle_pin_never_removes(file, path) ==
    LET pinned == LoadList(file)
    IN  [written |-> Append(pinned, path), is_pinned |-> TRUE]

toggle_pin_stale_flag(file, path) ==
    LET pinned == LoadList(file)
    IN  IF InList(path, pinned)
        THEN [written |-> ListRemove(pinned, path), is_pinned |-> TRUE]
        ELSE [written |-> Append(pinned, path), is_pinned |-> TRUE]

toggle_pin_clears(file, path) ==
    LET pinned == LoadList(file)
    IN  IF InList(path, pinned)
        THEN [written |-> <<>>, is_pinned |-> FALSE]
        ELSE [written |-> Append(pinned, path), is_pinned |-> TRUE]

toggle_pin(file, path) ==
    LET pinned == LoadList(file)
    IN  IF InList(path, pinned)
        THEN [written |-> ListRemove(pinned, path), is_pinned |-> FALSE]
        ELSE [written |-> Append(pinned, path), is_pinned |-> TRUE]

\* ---- add_to_recent(path): the list written back; now is datetime.now() ----
add_to_recent_uncapped(file, path, now) ==
    LET recent == LoadList(file)
        kept == SelectSeq(recent, LAMBDA r : r.path # path)
    IN  <<[path |-> path, opened_at |-> now]>> \o kept

add_to_recent_appends(file, path, now) ==
    LET recent == LoadList(file)
        kept == SelectSeq(recent, LAMBDA r : r.path # path)
    IN  Take(kept \o <<[path |-> path, opened_at |-> now]>>, MAX_RECENT)

add_to_recent(file, path, now) ==
    LET recent == LoadList(file)
        kept == SelectSeq(recent, LAMBDA r : r.path # path)
        inserted == <<[path |-> path, opened_at |-> now]>> \o kept
    IN  Take(inserted, MAX_RECENT)

\* ---- open_cursor(path, new_window): the Popen call and whether an
\* ---- exception leaves the function; outcome is what Popen does ----
open_cursor_uncaught(path, new_window, outcome) ==
    [call |-> [invoked |-> TRUE, path |-> path, new_window |-> new_window,
               outcome |-> outcome],
     raised |-> outcome # "spawned"]

open_cursor(path, new_window, outcome) ==
    [call |-> [invoked |-> TRUE, path |-> path, new_window |-> new_window,
               outcome |-> outcome],
     raised |-> FALSE]

\* ---- the validity test of the open-in-cursor branch of do_GET ----
ValidOpenPath_unchecked(path, on_disk) == path # NoPath

ValidOpenPath(path, on_disk) == path # NoPath /\ on_disk

\* ---- the validity test of the toggle-pin branch of do_GET ----
ValidPinPath_any(path) == TRUE

ValidPinPath(path) == path # NoPath

\* ---- do_GET, path /toggle-pin ----
TogglePin_logs(P) ==
    \E path \in P :
        /\ req' = [endpoint |-> "/toggle-pin", path |-> path]
        /\ prev' = [pinned |-> pinnedFile, recent |-> recentFile]
        /\ sameAsLast' = (req' = req)
        /\ UNCHANGED dashVars
        /\ UNCHANGED inflight
        /\ spawn' = NoSpawn
        /\ IF ValidPinPath(path)
           THEN LET r == toggle_pin(pinnedFile, path)
                IN  IF Writable(pinnedFile)
                    THEN /\ pinnedFile' = WriteList(pinnedFile, r.written)
                         /\ recentFile' = WriteList(recentFile, add_to_recent(recentFile, path, 0))
                         /\ resp' = JsonResponse(200, [status |-> "ok",
                                                       pinned |-> r.is_pinned])
                    ELSE /\ UNCHANGED pinnedFile
                         /\ UNCHANGED recentFile
                         /\ resp' = NoResponse
           ELSE /\ UNCHANGED pinnedFile
                /\ UNCHANGED recentFile
                /\ resp' = JsonResponse(400, [status |-> "error",
                                              message |-> "No path provided"])

TogglePin(P) ==
    \E path \in P :
        /\ req' = [endpoint |-> "/toggle-pin", path |-> path]
        /\ prev' = [pinned |-> pinnedFile, recent |-> recentFile]
        /\ sameAsLast' = (req' = req)
        /\ UNCHANGED dashVars
        /\ UNCHANGED inflight
        /\ spawn' = NoSpawn
        /\ UNCHANGED recentFile
        /\ IF ValidPinPath(path)
           THEN LET r == toggle_pin(pinnedFile, path)
                IN  IF Writable(pinnedFile)
                    THEN /\ pinnedFile' = WriteList(pinnedFile, r.written)
                         /\ resp' = JsonResponse(200, [status |-> "ok",
                                                       pinned |-> r.is_pinned])
                    ELSE /\ UNCHANGED pinnedFile
                         /\ resp' = NoResponse
           ELSE /\ UNCHANGED pinnedFile
                /\ resp' = JsonResponse(400, [status |-> "error",
                                              message |-> "No path provided"])

\* ---- do_GET, path /open-in-cursor; on_disk is os.path.exists(path) ----
OpenInCursor(P) ==
    \E path \in P, on_disk \in BOOLEAN :
        /\ req' = [endpoint |-> "/open-in-cursor", path |-> path, on_disk |-> on_disk]
        /\ prev' = [pinned |-> pinnedFile, recent |-> recentFile]
        /\ sameAsLast' = (req' = req)
        /\ UNCHANGED dashVars
        /\ UNCHANGED inflight
        /\ UNCHANGED pinnedFile
        /\ IF ValidOpenPath(path, on_disk)
           THEN \E new_window \in BOOLEAN, outcome \in LaunchOutcomes, now \in Times :
                   LET o == open_cursor(path, new_window, outcome)
                   IN  /\ spawn' = o.call
                       /\ IF o.raised \/ ~Writable(recentFile)
                          THEN /\ UNCHANGED recentFile
                               /\ resp' = NoResponse
                          ELSE /\ recentFile' = WriteList(recentFile,
                                                       add_to_recent(recentFile, path, now))
                               /\ resp' = JsonResponse(200, [status |-> "ok"])
           ELSE /\ spawn' = NoSpawn
                /\ UNCHANGED recentFile
                /\ resp' = JsonResponse(400, [status |-> "error",
                                              message |-> "Invalid path"])

\* ---- the server handling requests one at a time ----
NoRequest == [endpoint |-> "", path |-> NoPath]

\* two executions of a handler method; none has started
Handlers == {1, 2}
IdleRun == [pc |-> "idle", op |-> "", path |-> NoPath, seen |-> AbsentFile,
            out |-> <<>>, is_pinned |-> FALSE, todo |-> <<>>, pos |-> 0]
NoneInFlight == [run |-> [h \in Handlers |-> IdleRun], events |-> <<>>, len |-> <<>>]

Init ==
    /\ pinnedFile \in {AbsentFile, JsonFile(<<>>)}
    /\ recentFile \in {AbsentFile, JsonFile(<<>>)}
    /\ req = NoRequest
    /\ resp = NoResponse
    /\ spawn = NoSpawn
    /\ prev = [pinned |-> pinnedFile, recent |-> recentFile]
    /\ sameAsLast = FALSE
    /\ folders = <<>> /\ cursor_recent = <<>> /\ projects = <<>>
    /\ pinned_projects = <<>> /\ recent_projects = <<>> /\ category_rows = <<>>
    /\ inflight = NoneInFlight
    /\ dashboardFile = AbsentFile
    /\ pc = "exit"

Next ==
    \/ TogglePin(Paths)
    \/ OpenInCursor(Paths)

Spec == Init /\ [][Next]_vars

\* ---- the server with a recent-open log that k earlier opens have filled ----
\* Opening paths k, k-1, .., 1 in that order from an empty log leaves this log.
SeedLog(k) == [i \in 1 .. k |-> [path |-> i, opened_at |-> 0]]

ProbePaths == {NoPath, MAX_RECENT} \cup (MAX_RECENT + 1 .. MAX_RECENT + NumFresh)

InitRecent ==
    /\ pinnedFile = AbsentFile
    /\ recentFile \in {AbsentFile} \cup {JsonFile(SeedLog(k)) : k \in 0 .. MAX_RECENT}
    /\ req = NoRequest
    /\ resp = NoResponse
    /\ spawn = NoSpawn
    /\ prev = [pinned |-> pinnedFile, recent |-> recentFile]
    /\ sameAsLast = FALSE
    /\ folders = <<>> /\ cursor_recent = <<>> /\ projects = <<>>
    /\ pinned_projects = <<>> /\ recent_projects = <<>> /\ category_rows = <<>>
    /\ inflight = NoneInFlight
    /\ dashboardFile = AbsentFile
    /\ pc = "exit"

NextRecent == OpenInCursor(ProbePaths)

SpecRecent == InitRecent /\ [][NextRecent]_vars

\* ================= generate_dashboard.py: scan and grouping =================
Mtimes == 1 .. MaxMtime

\* load_pinned()
load_pinned(file) == IF file.st \in {"json", "readonly"} THEN file.data ELSE <<>>

\* "for idx, rpath in enumerate(cursor_recent): if rpath == path_str: ... break"
FirstIndex_last(list, path) ==
    IF InList(path, list)
    THEN (CHOOSE k \in 1 .. Len(list) :
              list[k] = path /\ \A j \in k + 1 .. Len(list) : list[j] # path) - 1
    ELSE NoneIdx

FirstIndex(list, path) ==
    IF InList(path, list)
    THEN (CHOOSE k \in 1 .. Len(list) :
              list[k] = path /\ \A j \in 1 .. k - 1 : list[j] # path) - 1
    ELSE NoneIdx

\* sorted(s, key=...), key[i] being the key of s[i]: ascending and stable.
\* With reverse=True Python keeps equal keys in their original order too,
\* which is the ascending stable sort on the negated keys.  (x \o <<>> is
\* x, written out as a tuple once instead of being recomputed at each use.)
StableSort(s, key) ==
    LET keys == key \o <<>>
        rank == [i \in 1 .. Len(s) |->
                    1 + Cardinality({j \in 1 .. Len(s) :
                            \/ keys[j] < keys[i]
                            \/ (keys[j] = keys[i] /\ j < i)})] \o <<>>
    IN  [k \in 1 .. Len(s) |-> s[CHOOSE i \in 1 .. Len(s) : rank[i] = k]] \o <<>>

\* str(project_folder)
PathOf(parent, name) == parent * NameBase + name

\* the names in the order of their strings, which is the order sorted()
\* gives the paths of one directory: the dotted names, the upper-case
\* category names, __pycache__, the lower-case names
NameOrder ==
    <<80, 81, 82, 83, 84, HARDWARE, PUZZLES, RESEARCH, TEACHING, TOOLS,
      85, 86, 87, 88, 89>> \o [i \in 1 .. 79 |-> i] \o <<90>>

NameKey(name) == CHOOSE k \in 1 .. Len(NameOrder) : NameOrder[k] = name

\* ---- catalogue.json of a folder: [st, md] ----
\* st: "absent", "unreadable" (open raises), "garbage" (json.load raises),
\* "nonobject" (JSON, but not an object) or "object" (md is the parsed dict,
\* a function from the keys present to their values).
EmptyDict == [k \in {} |-> ""]
NoCatalogue == [st |-> "absent", md |-> EmptyDict]

\* metadata.get(key, default)
DictGet(md, key, default) == IF key \in DOMAIN md THEN md[key] ELSE default

\* "metadata.get('oneLiner') or metadata.get('description', '')"
OneLinerOf_noFallback(md) == DictGet(md, "oneLiner", "")

OneLinerOf(md) ==
    IF "oneLiner" \in DOMAIN md /\ md["oneLiner"] # ""
    THEN md["oneLiner"]
    ELSE DictGet(md, "description", "")

\* create_project_entry: <<>> for None, else <<project>>, with the fields
\* that the grouping and the claims read; folder.mtime is
\* get_folder_mtime(project_dir).  A catalogue that parses to something
\* other than an object makes metadata.get raise, a folder that may not be
\* searched makes catalogue_path.exists() raise, and the outer except
\* returns None.
create_project_entry(folder, category, pinned_paths, recent) ==
    LET path_str == PathOf(folder.parent, folder.name)
        cat == folder.catalogue
        metadata == IF cat.st = "object" THEN cat.md ELSE EmptyDict
    IN  IF cat.st = "nonobject" \/ folder.access = "unsearchable"
        THEN <<>>
        ELSE <<[id |-> DictGet(metadata, "id", folder.name),
                title |-> DictGet(metadata, "title", folder.name),
                oneLiner |-> OneLinerOf(metadata),
                categories |-> DictGet(metadata, "categories", <<>>),
                tags |-> DictGet(metadata, "tags", <<>>),
                kind |-> DictGet(metadata, "kind", "project"),
                status |-> DictGet(metadata, "status", "active"),
                path |-> path_str,
                category |-> category,
                mtime |-> folder.mtime,
                has_catalogue |-> cat.st # "absent",
                is_pinned |-> InList(path_str, pinned_paths),
                cursor_recent_idx |-> FirstIndex(recent, path_str)]>>

\* s1 + s2 + ... for a sequence of sequences
RECURSIVE Flatten(_)
Flatten(ss) == IF ss = <<>> THEN <<>> ELSE Head(ss) \o Flatten(Tail(ss))

\* the names a pass of find_all_projects leaves out
SkippedInCategory(name) == name \in IGNORE_FOLDERS

SkippedInRoot_keepsCategories(name) == name \in IGNORE_FOLDERS

SkippedInRoot(name) == name \in Range(MAIN_CATEGORIES) \/ name \in IGNORE_FOLDERS

\* the parent of CODING_ROOT: an entry [parent |-> NoParent, name |->
\* CODING_ROOT] of fs tells what CODING_ROOT itself is; without one it is a
\* directory
NoParent == -1

\* what a directory allows: everything ("ok"), or not to be listed
\* ("unlistable", no read permission), or not to be searched
\* ("unsearchable", no search permission: its entries cannot be stat'ed)
Accesses == {"ok", "unlistable", "unsearchable"}

\* the access CODING_ROOT allows
RootAccess(fs) ==
    IF \E i \in 1 .. Len(fs) : fs[i].parent = NoParent /\ fs[i].name = CODING_ROOT
    THEN LET i == CHOOSE i \in 1 .. Len(fs) :
                      fs[i].parent = NoParent /\ fs[i].name = CODING_ROOT
         IN  fs[i].access
    ELSE "ok"

\* whether find_all_projects() raises: cat_path.exists() holds for a plain
\* file of a category's name and cat_path.iterdir() then raises
\* NotADirectoryError; CODING_ROOT.iterdir() raises when CODING_ROOT is not a
\* directory; cat_path.exists() raises PermissionError, outside the try,
\* when CODING_ROOT may not be searched.  Only PermissionError is caught,
\* and only around the two loops.
find_all_projects_raises(fs) ==
    \/ \E i \in 1 .. Len(fs) :
          /\ fs[i].parent = CODING_ROOT
          /\ fs[i].name \in Range(MAIN_CATEGORIES)
          /\ ~fs[i].is_dir
    \/ \E i \in 1 .. Len(fs) :
          fs[i].parent = NoParent /\ fs[i].name = CODING_ROOT /\ ~fs[i].is_dir
    \/ RootAccess(fs) = "unsearchable"

\* find_all_projects(): fs is what the directory listings yield, one record
\* [parent, name, is_dir, access, mtime, catalogue] per entry; the children
\* of the root come in the order of CODING_ROOT.iterdir().  First the
\* children of each category folder that exists, sorted by their paths,
\* then the children of the root.  A category folder that may not be listed
\* or searched raises PermissionError before its first project (in
\* iterdir() or in the first is_dir()), and the pass of that category is
\* empty; so is the pass of the root when the root may not be listed.
\* No path is met twice, so seen_paths never skips an entry.
find_all_projects(fs, pinned_file, recent) ==
    LET pinned_paths == load_pinned(pinned_file)
        Exists(category) ==
            \E i \in 1 .. Len(fs) : fs[i].parent = CODING_ROOT /\ fs[i].name = category
        Denied(category) ==
            \E i \in 1 .. Len(fs) : /\ fs[i].parent = CODING_ROOT
                                     /\ fs[i].name = category
                                     /\ fs[i].access # "ok"
        ChildrenOf(category) ==
            LET listed == SelectSeq(fs, LAMBDA e : e.parent = category)
            IN  StableSort(listed, [i \in 1 .. Len(listed) |-> NameKey(listed[i].name)])
        CategoryPass(category) ==
            IF ~Exists(category) \/ Denied(category)
            THEN <<>>
            ELSE LET kept == SelectSeq(ChildrenOf(category),
                                       LAMBDA e : e.is_dir /\ ~SkippedInCategory(e.name))
                 IN  Flatten([i \in 1 .. Len(kept) |->
                         create_project_entry(kept[i], category, pinned_paths, recent)])
        RootPass ==
            LET kept == SelectSeq(fs, LAMBDA e : /\ e.parent = CODING_ROOT
                                                 /\ e.is_dir
                                                 /\ ~SkippedInRoot(e.name))
            IN  IF RootAccess(fs) = "unlistable"
                THEN <<>>
                ELSE Flatten([i \in 1 .. Len(kept) |->
                        create_project_entry(kept[i], OTHER_CATEGORY, pinned_paths,
                                             recent)])
    IN  Flatten([c \in 1 .. Len(MAIN_CATEGORIES) |-> CategoryPass(MAIN_CATEGORIES[c])])
            \o RootPass

\* generate_html: cursor_recent_projects + mtime_recent_projects, cut at the cap
RecentGroup_repeats(ps) ==
    LET in_cursor == SelectSeq(ps, LAMBDA p : p.cursor_recent_idx # NoneIdx)
        cursor_recent_projects ==
            StableSort(in_cursor,
                       [i \in 1 .. Len(in_cursor) |-> in_cursor[i].cursor_recent_idx])
        mtime_recent_projects ==
            StableSort(ps, [i \in 1 .. Len(ps) |-> 0 - ps[i].mtime])
    IN  Take(cursor_recent_projects \o mtime_recent_projects, DASHBOARD_MAX_RECENT)

RecentGroup(ps) ==
    LET in_cursor == SelectSeq(ps, LAMBDA p : p.cursor_recent_idx # NoneIdx)
        cursor_recent_projects ==
            StableSort(in_cursor,
                       [i \in 1 .. Len(in_cursor) |-> in_cursor[i].cursor_recent_idx])
        cursor_recent_paths == {p.path : p \in Range(cursor_recent_projects)}
        others == SelectSeq(ps, LAMBDA p : p.path \notin cursor_recent_paths)
        mtime_recent_projects ==
            StableSort(others, [i \in 1 .. Len(others) |-> 0 - others[i].mtime])
    IN  Take(cursor_recent_projects \o mtime_recent_projects, DASHBOARD_MAX_RECENT)

\* generate_html: "pinned_projects = [p for p in projects if p['is_pinned']]"
PinnedGroup_fromRecentRow(ps) == SelectSeq(RecentGroup(ps), LAMBDA p : p.is_pinned)

PinnedGroup(ps) == SelectSeq(ps, LAMBDA p : p.is_pinned)

\* max(p['mtime'] for p in ps), ps not empty
MaxMtimeOf(ps) == CHOOSE m \in {p.mtime : p \in Range(ps)} :
                      \A p \in Range(ps) : p.mtime <= m

\* generate_html: by_category with each list sorted by mtime descending, the
\* categories that have projects sorted by their latest mtime descending.
\* The result is the sequence of rows [category, projects] in display order.
CategoryRows_listOrder(ps) ==
    LET all_categories == MAIN_CATEGORIES \o <<OTHER_CATEGORY>>
        by_category ==
            [cat \in Range(all_categories) |->
                LET members == SelectSeq(ps, LAMBDA p : p.category = cat)
                IN  StableSort(members,
                               [i \in 1 .. Len(members) |-> 0 - members[i].mtime])]
        shown == SelectSeq(all_categories, LAMBDA cat : by_category[cat] # <<>>)
    IN  [i \in 1 .. Len(shown) |->
            [category |-> shown[i], projects |-> by_category[shown[i]]]]

CategoryRows(ps) ==
    LET all_categories == MAIN_CATEGORIES \o <<OTHER_CATEGORY>>
        by_category ==
            [cat \in Range(all_categories) |->
                LET members == SelectSeq(ps, LAMBDA p : p.category = cat)
                IN  StableSort(members,
                               [i \in 1 .. Len(members) |-> 0 - members[i].mtime])]
        shown == SelectSeq(all_categories, LAMBDA cat : by_category[cat] # <<>>)
        sorted_categories ==
            StableSort(shown, [i \in 1 .. Len(shown) |->
                                   0 - MaxMtimeOf(by_category[shown[i]])])
    IN  [i \in 1 .. Len(sorted_categories) |->
            [category |-> sorted_categories[i],
             projects |-> by_category[sorted_categories[i]]]]

\* OUTPUT_FILE holding a document
HtmlFile(doc) == [st |-> "html", data |-> doc]

\* ---- main() of generate_dashboard.py ----
\* "projects = find_all_projects()"; an exception out of it ends main()
FindAllProjects ==
    /\ pc = "start"
    /\ IF find_all_projects_raises(folders)
       THEN /\ UNCHANGED projects
            /\ pc' = "crashed"
       ELSE /\ projects' = find_all_projects(folders, pinnedFile, cursor_recent)
            /\ pc' = "scanned"
    /\ UNCHANGED <<folders, cursor_recent, pinned_projects, recent_projects, category_rows,
                   dashboardFile>>
    /\ UNCHANGED serverVars
    /\ UNCHANGED inflight

\* "if not projects: print(...); return"
NoProjectsFound ==
    /\ pc = "scanned"
    /\ projects = <<>>
    /\ pc' = "exit"
    /\ UNCHANGED <<folders, cursor_recent, projects, pinned_projects, recent_projects,
                   category_rows, dashboardFile>>
    /\ UNCHANGED serverVars
    /\ UNCHANGED inflight

\* "html = generate_html(projects)", then the write of OUTPUT_FILE
GenerateHtml ==
    /\ pc = "scanned"
    /\ projects # <<>>
    /\ recent_projects' = RecentGroup(projects)
    /\ pinned_projects' = PinnedGroup(projects)
    /\ category_rows' = CategoryRows(projects)
    /\ dashboardFile' = HtmlFile([pinned |-> pinned_projects', recent |-> recent_projects',
                                  categories |-> category_rows'])
    /\ pc' = "written"
    /\ UNCHANGED <<folders, cursor_recent, projects>>
    /\ UNCHANGED serverVars
    /\ UNCHANGED inflight

\* ---- the inputs of one run of the generator ----
SeqsUpTo(S, n) == UNION {[1 .. k -> S] : k \in 0 .. n}

\* Up to MaxVaried folders with any activity timestamps, then either nothing
\* or DASHBOARD_MAX_RECENT more folders that share one timestamp, all of them
\* children of the root without a catalogue, named in the order of the listing.
Scans ==
    {[i \in 1 .. Len(m) + f |->
          [parent |-> CODING_ROOT, name |-> i, is_dir |-> TRUE, access |-> "ok",
           mtime |-> IF i <= Len(m) THEN m[i] ELSE fm, catalogue |-> NoCatalogue]] :
        m \in SeqsUpTo(Mtimes, MaxVaried), f \in {0, DASHBOARD_MAX_RECENT}, fm \in Mtimes}

\* a path that no scan meets
StrayPath == MaxVaried + DASHBOARD_MAX_RECENT + 1

PinCandidates == {1, 2, StrayPath}
PinnedLists == {l \in SeqsUpTo(PinCandidates, Cardinality(PinCandidates)) : NoDup(l)}

RecentCandidates == {2, 3}
\* the editor's list: long enough for a path to come again after another
CursorRecents == SeqsUpTo(RecentCandidates, Cardinality(RecentCandidates) + 1)

InitDash ==
    /\ pinnedFile \in {AbsentFile} \cup {JsonFile(l) : l \in PinnedLists}
    /\ recentFile = AbsentFile
    /\ req = NoRequest
    /\ resp = NoResponse
    /\ spawn = NoSpawn
    /\ prev = [pinned |-> pinnedFile, recent |-> recentFile]
    /\ sameAsLast = FALSE
    /\ folders \in Scans
    /\ cursor_recent \in CursorRecents
    /\ projects = <<>> /\ pinned_projects = <<>> /\ recent_projects = <<>>
    /\ category_rows = <<>>
    /\ inflight = NoneInFlight
    /\ dashboardFile = AbsentFile
    /\ pc = "start"

NextDash ==
    \/ FindAllProjects
    \/ NoProjectsFound
    \/ GenerateHtml

SpecDash == InitDash /\ [][NextDash]_vars

\* ---- a run of the generator over folders in several categories ----
ServerIdle ==
    /\ recentFile = AbsentFile
    /\ req = NoRequest
    /\ resp = NoResponse
    /\ spawn = NoSpawn
    /\ prev = [pinned |-> pinnedFile, recent |-> recentFile]
    /\ sameAsLast = FALSE

GeneratorAtStart ==
    /\ projects = <<>> /\ pinned_projects = <<>> /\ recent_projects = <<>>
    /\ category_rows = <<>>
    /\ inflight = NoneInFlight
    /\ pc = "start"

\* a directory without catalogue.json
Dir(parent, name, mtime) ==
    [parent |-> parent, name |-> name, is_dir |-> TRUE, access |-> "ok",
     mtime |-> mtime, catalogue |-> NoCatalogue]

\* The root holds the folders RESEARCH, TEACHING and TOOLS; up to
\* MaxCatFolders project folders, named 1, 2, .., lie in RESEARCH, in TOOLS
\* or in the root itself, with any activity timestamps.  TEACHING is empty.
CategoryScans ==
    {<<Dir(CODING_ROOT, RESEARCH, 1), Dir(CODING_ROOT, TEACHING, 1),
       Dir(CODING_ROOT, TOOLS, 1)>>
         \o [i \in 1 .. Len(where) |-> Dir(where[i][1], i, where[i][2])] :
        where \in SeqsUpTo({RESEARCH, TOOLS, CODING_ROOT} \X Mtimes, MaxCatFolders)}

InitCat ==
    /\ pinnedFile = AbsentFile
    /\ ServerIdle
    /\ folders \in CategoryScans
    /\ cursor_recent = <<>>
    /\ dashboardFile = AbsentFile
    /\ GeneratorAtStart

SpecCat == InitCat /\ [][NextDash]_vars

\* ---- a run of the generator over a small directory tree ----
\* what may lie at <folder>/catalogue.json
CatalogueStates ==
    {NoCatalogue} \cup
    {[st |-> st, md |-> EmptyDict] : st \in {"unreadable", "garbage", "nonobject", "object"}}

\* a plain file
File(parent, name) ==
    [parent |-> parent, name |-> name, is_dir |-> FALSE, access |-> "ok",
     mtime |-> 1, catalogue |-> NoCatalogue]

\* an ignored name
NODE_MODULES == 89

\* what the root may hold, in the order of its listing: two category
\* folders, an ignored folder, a folder, a file, and a file that has the
\* name of a category
RootCandidates ==
    <<Dir(CODING_ROOT, TOOLS, 1), Dir(CODING_ROOT, 1, 1),
      Dir(CODING_ROOT, NODE_MODULES, 1), Dir(CODING_ROOT, RESEARCH, 1),
      File(CODING_ROOT, 2), File(CODING_ROOT, TEACHING)>>

\* CODING_ROOT does not exist
MissingRoot == <<File(NoParent, CODING_ROOT)>>

RootListings ==
    {SelectSeq(RootCandidates, LAMBDA e : e.name \in chosen) :
        chosen \in SUBSET {RootCandidates[i].name : i \in 1 .. Len(RootCandidates)}}

\* what a category folder may hold: folders with any catalogue, among them
\* an ignored one, folders that have the name of a category, and files
ChildCandidates ==
    {[Dir(parent, 1, 1) EXCEPT !.catalogue = cat] :
        parent \in {RESEARCH, TOOLS}, cat \in CatalogueStates}
    \cup {Dir(parent, NODE_MODULES, 1) : parent \in {RESEARCH, TOOLS}}
    \cup {Dir(RESEARCH, name, 1) : name \in {TOOLS, HARDWARE}}
    \cup {File(parent, 1) : parent \in {RESEARCH, TOOLS}}

\* up to MaxChildren entries, no two at one path, each in a category folder
\* that the root holds
Trees ==
    {root \o kids :
        root \in RootListings,
        kids \in {k \in SeqsUpTo(ChildCandidates, MaxChildren) :
                     \A i, j \in 1 .. Len(k) :
                         i < j => PathOf(k[i].parent, k[i].name)
                                      < PathOf(k[j].parent, k[j].name)}} 

WholeTrees ==
    {t \in Trees : \A e \in Range(t) :
        e.parent # CODING_ROOT =>
            \E r \in Range(t) : r.parent = CODING_ROOT /\ r.name = e.parent}

\* CODING_ROOT with an access of its own
RootDir(access) == [Dir(NoParent, CODING_ROOT, 1) EXCEPT !.access = access]

\* the trees whose root holds every candidate but the file that has the
\* name of a category
FullTrees ==
    {t \in WholeTrees :
        /\ \A c \in Range(RootCandidates) : c.is_dir => c \in Range(t)
        /\ File(CODING_ROOT, TEACHING) \notin Range(t)}

\* the trees, and the full ones also with one directory, or the root, that
\* denies access
ScanTrees ==
    WholeTrees
    \cup UNION {{[t EXCEPT ![i].access = a] :
                      i \in {j \in 1 .. Len(t) : t[j].is_dir},
                      a \in Accesses \ {"ok"}} : t \in FullTrees}
    \cup {<<RootDir(a)>> \o t : t \in FullTrees, a \in Accesses \ {"ok"}}
    \cup {MissingRoot}

InitScan ==
    /\ pinnedFile = AbsentFile
    /\ ServerIdle
    /\ folders \in ScanTrees
    /\ cursor_recent = <<>>
    /\ dashboardFile = AbsentFile
    /\ GeneratorAtStart

SpecScan == InitScan /\ [][NextDash]_vars

\* ---- a run of the generator over one folder with a catalogue that parses ----
RecognizedFields ==
    {"id", "title", "oneLiner", "description", "categories", "tags", "kind", "status"}

\* the JSON objects that hold any subset of the recognized fields; oneLiner
\* and description may be the empty string
Descriptors ==
    {[k \in keys |->
        [id |-> "I", title |-> "T", oneLiner |-> o, description |-> d,
         categories |-> <<"c">>, tags |-> <<"t">>, kind |-> "K", status |-> "S"][k]] :
        keys \in SUBSET RecognizedFields, o \in {"", "O"}, d \in {"", "D"}}

InitMeta ==
    /\ pinnedFile = AbsentFile
    /\ ServerIdle
    /\ \E cat \in {[st |-> "object", md |-> md] : md \in Descriptors}
                      \cup {[st |-> "nonobject", md |-> EmptyDict]} :
          folders = <<[Dir(CODING_ROOT, 1, 1) EXCEPT !.catalogue = cat]>>
    /\ cursor_recent = <<>>
    /\ dashboardFile = AbsentFile
    /\ GeneratorAtStart

SpecMeta == InitMeta /\ [][NextDash]_vars

\* ---- two handler executions over the same files, step by step ----
\* toggle_pin and add_to_recent each read their file, compute the new list
\* from what they read, open the file for writing, which empties it, and
\* dump the list, whose text reaches the file in one or more writes, each
\* at the position the execution's own file object has reached, the last
\* when the file is closed.  Nothing orders
\* the steps of two executions that run side by side (two server processes,
\* or a threading server; the TCPServer of main() itself handles one request
\* at a time).
RacePaths == 1 .. NumPaths

\* the lengths a path string may have: a list of two long paths is a text
\* of more than TEXT_CHUNK characters
ShortPathLen == 1
LongPathLen == 4095
\* the lengths of the paths: the first k of them are long
RaceLens == {[p \in RacePaths |-> IF p <= k THEN LongPathLen ELSE ShortPathLen] :
                k \in 0 .. NumPaths}

\* open(FILE, 'w'): the text layer hands its pending text to the buffered
\* writer once it reaches TEXT_CHUNK characters, and the buffered writer
\* keeps up to BUFFER_SIZE characters (the block size of the file system)
\* before it writes to the file
TEXT_CHUNK == 8192
BUFFER_SIZE == 4096

\* datetime.now().isoformat(): 26 characters, 19 when the microsecond is 0;
\* the even clock readings stand for the times of microsecond 0
ISO_SECONDS_LEN == 19
ISO_MICROS_LEN == 26
StampLen(now) == IF now % 2 = 0 THEN ISO_SECONDS_LEN ELSE ISO_MICROS_LEN

\* the clock readings of the executions: one of each length
RaceTimes == {now \in Times : now <= 1}

\* The text of a file is a sequence of cells [tok, val, len]: a piece of JSON
\* syntax of len characters.  "ws" is white space, "str" the quoted path val,
\* "time" the quoted timestamp of clock reading val, "key_path" and
\* "key_opened_at" the quoted keys, "junk" what is left of a cell that was
\* overwritten in part, "hole" the zero bytes between the old end of a file and
\* a write beyond it.  json.load accepts a text when its cells, white space
\* aside, spell a list; with paths of the lengths taken here the texts that
\* two executions leave spell nothing else that is JSON.
Cell(tok, val, len) == [tok |-> tok, val |-> val, len |-> len]

RECURSIVE Size(_)
Size(cells) == IF cells = <<>> THEN 0 ELSE Head(cells).len + Size(Tail(cells))

\* json.dump(pinned, f, indent=2): the strings it hands to f.write, one after
\* the other, each as its cells; len[p] is the length of path p
PinnedChunks(pinned, len) ==
    IF pinned = <<>> THEN << <<Cell("[]", 0, 2)>> >>
    ELSE [i \in 1 .. Len(pinned) |->
             <<Cell(IF i = 1 THEN "[" ELSE ",", 0, 1), Cell("ws", 0, 3),
               Cell("str", pinned[i], len[pinned[i]] + 2)>>]
         \o << <<Cell("ws", 0, 1)>>, <<Cell("]", 0, 1)>> >>

\* json.dump(recent, f, indent=2): likewise for the log
RecentChunks(recent, len) ==
    IF recent = <<>> THEN << <<Cell("[]", 0, 2)>> >>
    ELSE Flatten([i \in 1 .. Len(recent) |->
             << <<Cell(IF i = 1 THEN "[" ELSE ",", 0, 1), Cell("ws", 0, 3)>>,
                <<Cell("{", 0, 1)>>,
                <<Cell("ws", 0, 5)>>,
                <<Cell("key_path", 0, 6)>>,
                <<Cell(":", 0, 1), Cell("ws", 0, 1)>>,
                <<Cell("str", recent[i].path, len[recent[i].path] + 2)>>,
                <<Cell(",", 0, 1), Cell("ws", 0, 5)>>,
                <<Cell("key_opened_at", 0, 11)>>,
                <<Cell(":", 0, 1), Cell("ws", 0, 1)>>,
                <<Cell("time", recent[i].opened_at, StampLen(recent[i].opened_at) + 2)>>,
                <<Cell("ws", 0, 3)>>,
                <<Cell("}", 0, 1)>> >>])
         \o << <<Cell("ws", 0, 1)>>, <<Cell("]", 0, 1)>> >>

\* the buffered writer is handed text: what it writes to the file (out, a
\* sequence of pieces) and what it keeps (buf)
BufferedWrite(buf, text) ==
    IF Size(text) <= BUFFER_SIZE - Size(buf)
    THEN [out |-> <<>>, buf |-> buf \o text]
    ELSE [out |-> (IF buf # <<>> THEN <<buf>> ELSE <<>>)
                  \o (IF Size(text) > BUFFER_SIZE THEN <<text>> ELSE <<>>),
          buf |-> IF Size(text) > BUFFER_SIZE THEN <<>> ELSE text]

\* "with open(FILE, 'w') as f", the f.write calls of json.dump for these
\* chunks, and the close: the pieces written to the file, in order; pending
\* is the text the text layer holds, buf what the buffered writer holds
RECURSIVE Pieces(_, _, _)
Pieces(chunks, pending, buf) ==
    IF chunks = <<>>
    THEN LET last == IF pending # <<>> THEN BufferedWrite(buf, pending)
                     ELSE [out |-> <<>>, buf |-> buf]
         IN  last.out \o (IF last.buf # <<>> THEN <<last.buf>> ELSE <<>>)
    ELSE LET chunk == Head(chunks)
             early == pending # <<>> /\ Size(pending) + Size(chunk) > TEXT_CHUNK
             first == IF early THEN BufferedWrite(buf, pending)
                      ELSE [out |-> <<>>, buf |-> buf]
             held == (IF early THEN <<>> ELSE pending) \o chunk
             full == Size(held) >= TEXT_CHUNK
             second == IF full THEN BufferedWrite(first.buf, held)
                       ELSE [out |-> <<>>, buf |-> first.buf]
         IN  first.out \o second.out
                 \o Pieces(Tail(chunks), IF full THEN <<>> ELSE held, second.buf)

\* n characters of a cell: white space stays white space
Part(cell, n) ==
    IF cell.tok = "ws" THEN Cell("ws", 0, n) ELSE Cell("junk", 0, n)

\* the first n characters of a text, zero bytes where the text is shorter
RECURSIVE Prefix(_, _)
Prefix(cells, n) ==
    IF n <= 0 THEN <<>>
    ELSE IF cells = <<>> THEN <<Cell("hole", 0, n)>>
    ELSE IF Head(cells).len <= n
         THEN <<Head(cells)>> \o Prefix(Tail(cells), n - Head(cells).len)
    ELSE <<Part(Head(cells), n)>>

\* a text without its first n characters
RECURSIVE Suffix(_, _)
Suffix(cells, n) ==
    IF cells = <<>> THEN <<>>
    ELSE IF n <= 0 THEN cells
    ELSE IF Head(cells).len <= n THEN Suffix(Tail(cells), n - Head(cells).len)
    ELSE <<Part(Head(cells), Head(cells).len - n)>> \o Tail(cells)

\* a text after piece is written at offset: the write replaces the
\* characters it covers and leaves the others
Overlay(cells, offset, piece) ==
    Prefix(cells, offset) \o piece \o Suffix(cells, offset + Size(piece))

Tokens(cells) == SelectSeq(cells, LAMBDA c : c.tok # "ws")

NotJson == [ok |-> FALSE, list |-> <<>>]

\* json.load of a text of PINNED_FILE: the list of its strings when the text
\* is a JSON list of strings
ParsePinned(cells) ==
    LET t == Tokens(cells)
        n == Len(t)
    IN  IF n = 1 /\ t[1].tok = "[]" THEN [ok |-> TRUE, list |-> <<>>]
        ELSE IF n = 2 /\ t[1].tok = "[" /\ t[2].tok = "]" THEN [ok |-> TRUE, list |-> <<>>]
        ELSE IF /\ n >= 3 /\ n % 2 = 1
                /\ t[1].tok = "[" /\ t[n].tok = "]"
                /\ \A i \in 2 .. n - 1 :
                       t[i].tok = (IF i % 2 = 0 THEN "str" ELSE ",")
        THEN [ok |-> TRUE, list |-> [k \in 1 .. (n - 1) \div 2 |-> t[2 * k].val]]
        ELSE NotJson

\* the tokens of one {path, opened_at} record of the log after its "[" or ","
RecordTokens ==
    <<"{", "key_path", ":", "str", ",", "key_opened_at", ":", "time", "}">>

\* json.load of a text of RECENT_FILE: the list of its records when the text
\* is a JSON list of {path, opened_at} records
ParseRecent(cells) ==
    LET t == Tokens(cells)
        n == Len(t)
    IN  IF n = 1 /\ t[1].tok = "[]" THEN [ok |-> TRUE, list |-> <<>>]
        ELSE IF n = 2 /\ t[1].tok = "[" /\ t[2].tok = "]" THEN [ok |-> TRUE, list |-> <<>>]
        ELSE IF /\ n >= 11 /\ n % 10 = 1
                /\ t[n].tok = "]"
                /\ \A k \in 0 .. (n \div 10) - 1 :
                       /\ t[10 * k + 1].tok = (IF k = 0 THEN "[" ELSE ",")
                       /\ \A j \in 1 .. 9 : t[10 * k + 1 + j].tok = RecordTokens[j]
        THEN [ok |-> TRUE,
              list |-> [k \in 1 .. n \div 10 |->
                           [path |-> t[10 * k - 5].val, opened_at |-> t[10 * k - 1].val]]]
        ELSE NotJson

\* the file that holds this text: what json.load makes of it (parsed), the
\* mode as it was
FileOfText(file, cells, parsed) ==
    [st |-> IF file.st = "unreadable" THEN "unreadable"
            ELSE IF parsed.ok THEN "json" ELSE "garbage",
     data |-> parsed.list,
     cells |-> cells]

\* the file after open(FILE, 'w'): no characters, the mode as it was
Truncated(file) == FileOfText(file, <<>>, NotJson)

\* an execution has written the first piece it had to write: the position
\* its file object has reached, the pieces it has yet to write, and whether
\* its file is closed
Written(run) ==
    [run EXCEPT !.pos = @ + Size(Head(run.todo)),
                !.todo = Tail(@),
                !.pc = IF Tail(run.todo) = <<>> THEN "done" ELSE "open"]

\* the list an execution computes from: the one it read
WorkingCopy_rereads(run, file) == file

WorkingCopy(run, file) == run.seen

Step(h, run, kind) ==
    [inflight EXCEPT !.run[h] = run, !.events = Append(@, <<kind, h>>)]

\* toggle_pin: the read of PINNED_FILE
ToggleRead(h) ==
    /\ inflight.run[h].pc = "idle"
    /\ \E path \in RacePaths :
          inflight' = Step(h, [IdleRun EXCEPT !.pc = "read", !.op = "toggle_pin",
                                              !.path = path, !.seen = pinnedFile], "read")
    /\ UNCHANGED <<serverVars, dashVars>>

\* toggle_pin: remove or append, then open(PINNED_FILE, 'w'); the files of
\* these runs can be written
ToggleTruncate(h) ==
    LET run == inflight.run[h]
        done == toggle_pin(WorkingCopy(run, pinnedFile), run.path)
    IN  /\ run.pc = "read" /\ run.op = "toggle_pin"
        /\ Writable(pinnedFile)
        /\ pinnedFile' = Truncated(pinnedFile)
        /\ inflight' = Step(h, [run EXCEPT
                                   !.pc = "open", !.out = done.written,
                                   !.is_pinned = done.is_pinned,
                                   !.todo = Pieces(PinnedChunks(done.written, inflight.len),
                                                   <<>>, <<>>)], "truncate")
        /\ UNCHANGED <<recentFile, req, resp, spawn, prev, sameAsLast>>
        /\ UNCHANGED dashVars

\* toggle_pin: one write of json.dump's text to PINNED_FILE; the last one
\* happens when the file is closed, then is_pinned is returned
ToggleWrite(h) ==
    LET run == inflight.run[h]
        text == Overlay(pinnedFile.cells, run.pos, Head(run.todo))
    IN  /\ run.pc = "open" /\ run.op = "toggle_pin"
        /\ pinnedFile' = FileOfText(pinnedFile, text, ParsePinned(text))
        /\ inflight' = Step(h, Written(run), "write")
        /\ UNCHANGED <<recentFile, req, resp, spawn, prev, sameAsLast>>
        /\ UNCHANGED dashVars

\* add_to_recent: the read of RECENT_FILE
RecentRead(h) ==
    /\ inflight.run[h].pc = "idle"
    /\ \E path \in RacePaths :
          inflight' = Step(h, [IdleRun EXCEPT !.pc = "read", !.op = "add_to_recent",
                                              !.path = path, !.seen = recentFile], "read")
    /\ UNCHANGED <<serverVars, dashVars>>

\* add_to_recent: filter, insert at the front, cut, then open(RECENT_FILE, 'w')
RecentTruncate(h) ==
    LET run == inflight.run[h]
    IN  /\ run.pc = "read" /\ run.op = "add_to_recent"
        /\ Writable(recentFile)
        /\ recentFile' = Truncated(recentFile)
        /\ \E now \in RaceTimes :
              LET recent == add_to_recent(WorkingCopy(run, recentFile), run.path, now)
              IN  inflight' = Step(h, [run EXCEPT
                                          !.pc = "open", !.out = recent,
                                          !.todo = Pieces(RecentChunks(recent, inflight.len),
                                                          <<>>, <<>>)], "truncate")
        /\ UNCHANGED <<pinnedFile, req, resp, spawn, prev, sameAsLast>>
        /\ UNCHANGED dashVars

\* add_to_recent: one write of json.dump's text to RECENT_FILE; the last one
\* happens when the file is closed
RecentWrite(h) ==
    LET run == inflight.run[h]
        text == Overlay(recentFile.cells, run.pos, Head(run.todo))
    IN  /\ run.pc = "open" /\ run.op = "add_to_recent"
        /\ recentFile' = FileOfText(recentFile, text, ParseRecent(text))
        /\ inflight' = Step(h, Written(run), "write")
        /\ UNCHANGED <<pinnedFile, req, resp, spawn, prev, sameAsLast>>
        /\ UNCHANGED dashVars

\* at most one of the two files exists; the paths have the lengths of one
\* choice of RaceLens
InitRace ==
    /\ \/ /\ pinnedFile \in {AbsentFile} \cup
                  {JsonFile(l) : l \in {s \in SeqsUpTo(RacePaths, NumPaths) : NoDup(s)}}
          /\ recentFile = AbsentFile
       \/ /\ pinnedFile = AbsentFile
          /\ recentFile \in {JsonFile(SeedLog(k)) : k \in 0 .. NumPaths}
    /\ req = NoRequest
    /\ resp = NoResponse
    /\ spawn = NoSpawn
    /\ prev = [pinned |-> pinnedFile, recent |-> recentFile]
    /\ sameAsLast = FALSE
    /\ folders = <<>> /\ cursor_recent = <<>> /\ projects = <<>>
    /\ pinned_projects = <<>> /\ recent_projects = <<>> /\ category_rows = <<>>
    /\ pc = "exit"
    /\ inflight \in {[NoneInFlight EXCEPT !.len = len] : len \in RaceLens}
    /\ dashboardFile = AbsentFile

NextRace ==
    \E h \in Handlers :
        \/ ToggleRead(h)
        \/ ToggleTruncate(h)
        \/ ToggleWrite(h)
        \/ RecentRead(h)
        \/ RecentTruncate(h)
        \/ RecentWrite(h)

SpecRace == InitRace /\ [][NextRace]_vars

\* ---- server main(): the generator runs once, then requests are served ----
\* OUTPUT_FILE as generate_html lays it out
Document ==
    [pinned |-> pinned_projects, recent |-> recent_projects,
     categories |-> category_rows]

\* the generator has returned or raised (main() of server.py only warns
\* then); TCPServer.serve_forever() is running
Serving == pc \in {"written", "exit", "crashed"}

\* a document that was in OUTPUT_FILE before this run: no run writes a
\* document without projects, so it differs from every document of this run
EarlierDocument == [pinned |-> <<>>, recent |-> <<>>, categories |-> <<>>]

\* SimpleHTTPRequestHandler.send_head for a file of DASHBOARD_DIR: 404 when
\* it cannot be opened, 304 when the request's If-Modified-Since is not
\* older than the file, else 200 with the file as it is
SendFile(there, body, not_modified) ==
    IF ~there THEN [code |-> 404]
    ELSE IF not_modified THEN [code |-> 304]
    ELSE JsonResponse(200, body)

\* do_GET, path /: dashboard.html is served from disk as it is
GetRoot_regenerates ==
    /\ Serving
    /\ \E not_modified \in BOOLEAN :
          /\ req' = [endpoint |-> "/", path |-> NoPath, not_modified |-> not_modified]
          /\ resp' = LET fresh == find_all_projects(folders, pinnedFile, cursor_recent)
                     IN  SendFile(dashboardFile.st = "html",
                                  [pinned |-> PinnedGroup(fresh),
                                   recent |-> RecentGroup(fresh),
                                   categories |-> CategoryRows(fresh)],
                                  not_modified)
    /\ prev' = [pinned |-> pinnedFile, recent |-> recentFile]
    /\ sameAsLast' = (req' = req)
    /\ spawn' = NoSpawn
    /\ UNCHANGED <<pinnedFile, recentFile, inflight>>
    /\ UNCHANGED dashVars

GetRoot ==
    /\ Serving
    /\ \E not_modified \in BOOLEAN :
          /\ req' = [endpoint |-> "/", path |-> NoPath, not_modified |-> not_modified]
          /\ resp' = SendFile(dashboardFile.st = "html", dashboardFile.data, not_modified)
    /\ prev' = [pinned |-> pinnedFile, recent |-> recentFile]
    /\ sameAsLast' = (req' = req)
    /\ spawn' = NoSpawn
    /\ UNCHANGED <<pinnedFile, recentFile, inflight>>
    /\ UNCHANGED dashVars

\* do_GET, any other path: a file of DASHBOARD_DIR is served as it is, here
\* pinned.json or recent.json; a directory of that name is answered with the
\* redirect to the path with a trailing slash
GetStatic ==
    /\ Serving
    /\ \E name \in {"/pinned.json", "/recent.json"}, not_modified \in BOOLEAN :
          LET file == IF name = "/pinned.json" THEN pinnedFile ELSE recentFile
          IN  /\ req' = [endpoint |-> name, path |-> NoPath, not_modified |-> not_modified]
              /\ resp' = IF file.st = "directory" THEN [code |-> 301]
                          ELSE SendFile(file.st \in {"json", "garbage", "readonly",
                                                      "readonly_garbage"}, file,
                                        not_modified)
    /\ prev' = [pinned |-> pinnedFile, recent |-> recentFile]
    /\ sameAsLast' = (req' = req)
    /\ spawn' = NoSpawn
    /\ UNCHANGED <<pinnedFile, recentFile, inflight>>
    /\ UNCHANGED dashVars

\* the one project path the requests of this run name, and the empty path
ServePaths == {NoPath, 1}

ServeTogglePin == Serving /\ TogglePin(ServePaths)

ServeOpenInCursor == Serving /\ OpenInCursor(ServePaths)

\* up to MaxVaried folders in the root, the first of them pinned or not, or
\* no root at all; dashboard.html is absent or left from before
InitServe ==
    /\ pinnedFile \in {AbsentFile, JsonFile(<<1>>)}
    /\ ServerIdle
    /\ folders \in {[i \in 1 .. v |-> Dir(CODING_ROOT, i, 1)] : v \in 0 .. MaxVaried}
                       \cup {MissingRoot}
    /\ cursor_recent = <<>>
    /\ dashboardFile \in {AbsentFile, HtmlFile(EarlierDocument)}
    /\ GeneratorAtStart

NextServe ==
    \/ FindAllProjects
    \/ NoProjectsFound
    \/ GenerateHtml
    \/ ServeTogglePin
    \/ ServeOpenInCursor
    \/ GetRoot
    \/ GetStatic

SpecServe == InitServe /\ [][NextServe]_vars

\* ---- requests against files in any condition ----
InitFiles ==
    /\ pinnedFile \in {AbsentFile, GarbageFile, UnreadableFile, NoAccessFile,
                       DirectoryFile, JsonFile(<<>>), JsonFile(<<1>>),
                       ReadOnlyFile(<<>>), ReadOnlyFile(<<1>>), ReadOnlyGarbageFile,
                       UncreatableFile}
    /\ recentFile \in {AbsentFile, GarbageFile, UnreadableFile, NoAccessFile,
                       DirectoryFile, ReadOnlyFile(<<>>), ReadOnlyGarbageFile,
                       UncreatableFile}
    /\ req = NoRequest
    /\ resp = NoResponse
    /\ spawn = NoSpawn
    /\ prev = [pinned |-> pinnedFile, recent |-> recentFile]
    /\ sameAsLast = FALSE
    /\ folders = <<>> /\ cursor_recent = <<>> /\ projects = <<>>
    /\ pinned_projects = <<>> /\ recent_projects = <<>> /\ category_rows = <<>>
    /\ pc = "exit"
    /\ inflight = NoneInFlight
    /\ dashboardFile = AbsentFile

NextFiles == TogglePin(ServePaths) \/ OpenInCursor(ServePaths) \/ GetStatic

SpecFiles == InitFiles /\ [][NextFiles]_vars

\* ======================= claims about the server =======================
IsToggle == req.endpoint = "/toggle-pin"
IsOpen == req.endpoint = "/open-in-cursor"

\* C1: a toggle-pin request with a non-empty path p against a duplicate-free
\* pinned list is answered 200, flips p's membership, leaves the membership
\* of every other path as it was, and returns p's new membership as 'pinned'.
C1_ToggleFlipsOnlyPath ==
    (IsToggle /\ req.path # NoPath /\ NoDup(LoadList(prev.pinned))) =>
        LET before == LoadList(prev.pinned)
            after == LoadList(pinnedFile)
        IN  /\ resp.code = 200
            /\ resp.body.status = "ok"
            /\ InList(req.path, after) <=> ~InList(req.path, before)
            /\ \A q \in Paths \ {req.path} : InList(q, after) <=> InList(q, before)
            /\ resp.body.pinned = InList(req.path, after)

\* C1 witness: an unpin that left another path pinned.
C1_Witness ==
    /\ IsToggle /\ req.path # NoPath
    /\ resp.code = 200 /\ resp.body.pinned = FALSE
    /\ InList(req.path, LoadList(prev.pinned))
    /\ Len(LoadList(pinnedFile)) >= 1

\* C2: when a toggle-pin(p) request directly follows a toggle-pin(p) request,
\* the pinned list has again the membership set and the length it had before
\* the first of the two; if the list was empty before the first, the first
\* answered pinned=true and left exactly [p], and the second answers
\* pinned=false and leaves the list empty.
C2_ToggleTwiceRestores ==
    [][(IsToggle /\ req.path # NoPath /\ req' = req) =>
          LET orig == LoadList(prev.pinned)
              mid == LoadList(pinnedFile)
              fin == LoadList(pinnedFile')
          IN  /\ Range(fin) = Range(orig)
              /\ Len(fin) = Len(orig)
              /\ orig = <<>> =>
                    /\ resp.code = 200 /\ resp.body.pinned = TRUE
                    /\ mid = <<req.path>>
                    /\ resp'.code = 200 /\ resp'.body.pinned = FALSE
                    /\ pinnedFile' = JsonFile(<<>>)]_vars

\* C2 witness: the second of two consecutive toggles of p has been handled,
\* from a list that held another path before p.
C2_Witness ==
    /\ IsToggle /\ req.path # NoPath /\ sameAsLast
    /\ resp.code = 200 /\ resp.body.pinned = FALSE
    /\ Len(LoadList(prev.pinned)) = 2
    /\ LoadList(prev.pinned)[2] = req.path

\* C3: the persisted pinned list holds each path at most once.
C3_PinnedNoDuplicates == NoDup(LoadList(pinnedFile))

\* C3 witness: a pin added a second path to the list after opens were logged.
C3_Witness ==
    /\ IsToggle /\ resp.code = 200 /\ resp.body.pinned = TRUE
    /\ Len(LoadList(pinnedFile)) >= 2
    /\ Len(LoadList(recentFile)) >= 1

\* C4: the persisted recent-open log has at most MAX_RECENT entries and no
\* path in more than one entry.
C4_RecentCappedNoDuplicates ==
    /\ Len(LoadList(recentFile)) <= MAX_RECENT
    /\ NoDup(PathsOf(LoadList(recentFile)))

\* C4 witness: a path not in a full log was opened, and the log is still full.
C4_Witness ==
    /\ IsOpen /\ resp.code = 200
    /\ Len(LoadList(prev.recent)) = MAX_RECENT
    /\ ~InList(req.path, PathsOf(LoadList(prev.recent)))
    /\ Len(LoadList(recentFile)) = MAX_RECENT

\* C5: after a successful open-in-cursor(p) the entry for p is first in the
\* log, and the rest is the previous log without its entry for p, in the
\* previous order, cut so that the whole has at most MAX_RECENT entries.
C5_OpenMovesToFront ==
    (IsOpen /\ resp.code = 200) =>
        LET old == LoadList(prev.recent)
            log == LoadList(recentFile)
            rest == SelectSeq(old, LAMBDA r : r.path # req.path)
        IN  /\ Len(log) = Min(1 + Len(rest), MAX_RECENT)
            /\ log[1].path = req.path
            /\ \A i \in 2 .. Len(log) : log[i] = rest[i - 1]

\* C5 witness: the last path of a full log was opened again.
C5_Witness ==
    /\ IsOpen /\ resp.code = 200
    /\ Len(LoadList(prev.recent)) = MAX_RECENT
    /\ LoadList(prev.recent)[MAX_RECENT].path = req.path
    /\ LoadList(recentFile)[1].path = req.path

\* C6: an open-in-cursor request whose path is missing, empty or not on the
\* filesystem is answered 400 with an error body, spawns no launcher and
\* leaves the recent-open log as it was.
C6_InvalidOpenRejected ==
    (IsOpen /\ (req.path = NoPath \/ ~req.on_disk)) =>
        /\ resp.code = 400
        /\ resp.body.status = "error"
        /\ spawn = NoSpawn
        /\ recentFile = prev.recent

\* C6 witness: a non-empty path that is not on disk was refused while the
\* log held an entry.
C6_Witness ==
    /\ IsOpen /\ req.path # NoPath /\ ~req.on_disk
    /\ resp.code = 400
    /\ Len(LoadList(recentFile)) >= 1

\* C7: a toggle-pin request without a path is answered 400 with the body
\* {status: error, message} and leaves the pinned list as it was.
C7_MissingPinPathRejected ==
    (IsToggle /\ req.path = NoPath) =>
        /\ resp.code = 400
        /\ resp.body.status = "error"
        /\ DOMAIN resp.body = {"status", "message"}
        /\ pinnedFile = prev.pinned

\* C7 witness: such a request was refused while a path was pinned.
C7_Witness ==
    /\ IsToggle /\ req.path = NoPath
    /\ resp.code = 400
    /\ Len(LoadList(pinnedFile)) >= 1

\* C8: an open-in-cursor request whose path exists is answered 200
\* {status: ok} and its path is first in the recent-open log, whatever the
\* launcher did (spawned, executable not found, other spawn error).
C8_LaunchFailureNotSurfaced ==
    (IsOpen /\ req.path # NoPath /\ req.on_disk) =>
        /\ spawn.invoked /\ spawn.path = req.path
        /\ resp = JsonResponse(200, [status |-> "ok"])
        /\ Len(LoadList(recentFile)) >= 1
        /\ LoadList(recentFile)[1].path = req.path

\* C8 witness: the launcher executable was not found and the path, which
\* was not in the log, is logged.
C8_Witness ==
    /\ IsOpen /\ spawn.invoked /\ spawn.outcome = "FileNotFoundError"
    /\ resp.code = 200
    /\ ~InList(req.path, PathsOf(LoadList(prev.recent)))
    /\ LoadList(recentFile)[1].path = req.path

\* ===================== claims about the dashboard =====================
PathsOfProjects(ps) == {p.path : p \in Range(ps)}

\* C9: the pinned group is ordered by activity timestamp descending.
C9_PinnedSortedByMtime ==
    pc = "written" =>
        \A i, j \in 1 .. Len(pinned_projects) :
            i < j => pinned_projects[i].mtime >= pinned_projects[j].mtime

\* C10: the pinned group holds exactly the scanned projects whose path is in
\* the persisted pinned list, each once, whatever their timestamp, their rank
\* in the editor's recent list or their presence in the recent group; pinned
\* paths that no scanned project has add nothing.
C10_PinnedGroupIsPinnedScanned ==
    pc = "written" =>
        /\ PathsOfProjects(pinned_projects) =
               {PathOf(f.parent, f.name) : f \in Range(folders)}
                   \cap Range(LoadList(pinnedFile))
        /\ NoDup([i \in 1 .. Len(pinned_projects) |-> pinned_projects[i].path])
        /\ Range(pinned_projects) \subseteq Range(projects)

\* C10 witness: the pinned list names a path that was not scanned, a project
\* that the editor lists as recent and a project that the capped recent group
\* leaves out; the pinned group has the two projects.
C10_Witness ==
    /\ pc = "written"
    /\ Len(recent_projects) = DASHBOARD_MAX_RECENT
    /\ Len(pinned_projects) = 2
    /\ InList(StrayPath, LoadList(pinnedFile))
    /\ \E p \in Range(pinned_projects) : p \notin Range(recent_projects)
    /\ \E p \in Range(pinned_projects) :
          p.cursor_recent_idx # NoneIdx /\ p \in Range(recent_projects)

\* C11: the recent group has at most DASHBOARD_MAX_RECENT entries and no path
\* twice, also when the editor's list names a path more than once and that
\* project has one of the highest activity timestamps.
C11_RecentCappedNoDuplicates ==
    pc = "written" =>
        /\ Len(recent_projects) <= DASHBOARD_MAX_RECENT
        /\ NoDup([i \in 1 .. Len(recent_projects) |-> recent_projects[i].path])

\* C11 witness: more projects than the cap; the editor's list names a scanned
\* project twice, and no project has a later activity timestamp than it.
C11_Witness ==
    /\ pc = "written"
    /\ Len(projects) > DASHBOARD_MAX_RECENT
    /\ Len(recent_projects) = DASHBOARD_MAX_RECENT
    /\ \E p \in Range(recent_projects) :
          /\ Cardinality({k \in 1 .. Len(cursor_recent) : cursor_recent[k] = p.path}) >= 2
          /\ \A q \in Range(projects) : q.mtime <= p.mtime

\* C16: the recent group is the first DASHBOARD_MAX_RECENT projects of: the
\* projects whose path is in the editor's list, by first occurrence there,
\* then the other projects by activity timestamp descending; none twice.
InSignal(p) == InList(p.path, cursor_recent)

FirstOccurrence(p) ==
    CHOOSE k \in 1 .. Len(cursor_recent) :
        cursor_recent[k] = p.path /\ \A j \in 1 .. k - 1 : cursor_recent[j] # p.path

\* a comes before b in that order (projects with equal timestamps in any order)
ComesBefore(a, b) ==
    \/ InSignal(a) /\ ~InSignal(b)
    \/ InSignal(a) /\ InSignal(b) /\ FirstOccurrence(a) < FirstOccurrence(b)
    \/ ~InSignal(a) /\ ~InSignal(b) /\ a.mtime >= b.mtime

C16_RecentGroupOrder ==
    pc = "written" =>
        LET r == recent_projects
        IN  /\ Range(r) \subseteq Range(projects)
            /\ Len(r) = Min(Len(projects), DASHBOARD_MAX_RECENT)
            /\ NoDup(r)
            /\ \A i, j \in 1 .. Len(r) : i < j => ComesBefore(r[i], r[j])
            /\ \A p \in Range(projects) \ Range(r) :
                   \A i \in 1 .. Len(r) : ComesBefore(r[i], p)

\* C16 witness: the editor's list names one scanned project before and after
\* another; both lead the recent group in first-occurrence order, the cap
\* cuts off a project, and a project outside the editor's list is in it.
C16_Witness ==
    /\ pc = "written"
    /\ Len(projects) > DASHBOARD_MAX_RECENT
    /\ Len(recent_projects) = DASHBOARD_MAX_RECENT
    /\ Len(cursor_recent) = 3 /\ cursor_recent[1] = cursor_recent[3]
    /\ cursor_recent[1] # cursor_recent[2]
    /\ recent_projects[1].path = cursor_recent[1]
    /\ recent_projects[2].path = cursor_recent[2]
    /\ ~InSignal(recent_projects[3])

\* C12: in every category row the projects are in activity-timestamp
\* descending order; the rows are ordered by their latest activity timestamp
\* descending; the rows are the categories that have projects, each with all
\* of its projects, and a category without projects has no row.
C12_CategoryRowsSorted ==
    pc = "written" =>
        LET rows == category_rows
        IN  /\ \A r \in 1 .. Len(rows) :
                  LET ps == rows[r].projects
                  IN  /\ ps # <<>>
                      /\ \A i, j \in 1 .. Len(ps) : i < j => ps[i].mtime >= ps[j].mtime
                      /\ NoDup(ps)
                      /\ Range(ps) = {p \in Range(projects) : p.category = rows[r].category}
            /\ \A r, s \in 1 .. Len(rows) :
                  r < s => MaxMtimeOf(rows[r].projects) >= MaxMtimeOf(rows[s].projects)
            /\ NoDup([r \in 1 .. Len(rows) |-> rows[r].category])
            /\ {rows[r].category : r \in 1 .. Len(rows)} =
                   {p.category : p \in Range(projects)}

\* C12 witness: the row of the uncategorised projects comes before the row
\* of RESEARCH, and its two projects were met by the scan in ascending
\* timestamp order; the existing folders TEACHING and TOOLS hold no project
\* and have no row.
C12_Witness ==
    /\ pc = "written"
    /\ Len(category_rows) = 2
    /\ category_rows[1].category = OTHER_CATEGORY
    /\ category_rows[2].category = RESEARCH
    /\ Len(category_rows[1].projects) = 2
    /\ category_rows[1].projects[1].path > category_rows[1].projects[2].path
    /\ category_rows[1].projects[1].mtime > category_rows[1].projects[2].mtime

\* find_all_projects() has returned its result
ScanReturned == pc \in {"scanned", "written", "exit"}

\* the folders of the tree that lie in a named category folder
UnderCategory == {e \in Range(folders) : e.parent \in Range(MAIN_CATEGORIES)}

\* C13: in every scan result no two projects share a path; a project of a
\* named category is a folder of that category folder and a project of the
\* catch-all category is a folder of the root, so no folder under a named
\* category is emitted as OTHER; no named category folder is itself a project.
C13_OnePathOneCategory ==
    ScanReturned =>
        /\ NoDup(PathsOf(projects))
        /\ \A p \in Range(projects) :
              /\ p.category # OTHER_CATEGORY =>
                    \E e \in UnderCategory :
                        e.parent = p.category /\ p.path = PathOf(e.parent, e.name)
              /\ p.category = OTHER_CATEGORY =>
                    /\ \E e \in Range(folders) :
                           e.parent = CODING_ROOT /\ p.path = PathOf(CODING_ROOT, e.name)
                    /\ \A e \in UnderCategory : p.path # PathOf(e.parent, e.name)
              /\ \A c \in Range(MAIN_CATEGORIES) : p.path # PathOf(CODING_ROOT, c)

\* C13 witness: the root holds the folder RESEARCH and a folder outside the
\* categories; the scan emitted a project of RESEARCH and a project of OTHER
C13_Witness ==
    /\ pc = "scanned"
    /\ \E e \in Range(folders) : e.parent = CODING_ROOT /\ e.name = RESEARCH
    /\ \E p \in Range(projects) : p.category = RESEARCH
    /\ \E p \in Range(projects) : p.category = OTHER_CATEGORY

\* C14: every folder of an existing named category folder whose name is not
\* ignored is exactly one project of that category in the scan result,
\* whatever its catalogue is: absent, unreadable, not JSON, or JSON that is
\* not an object; with such a catalogue the project has the default fields.
C14_EveryChildIsOneProject ==
    ScanReturned =>
        \A e \in UnderCategory :
            (e.is_dir /\ e.name \notin IGNORE_FOLDERS) =>
                /\ Cardinality({i \in 1 .. Len(projects) :
                        projects[i].path = PathOf(e.parent, e.name)}) = 1
                /\ \A p \in Range(projects) :
                       p.path = PathOf(e.parent, e.name) =>
                           /\ p.category = e.parent
                           /\ e.catalogue.st # "object" =>
                                 /\ p.id = e.name /\ p.title = e.name
                                 /\ p.oneLiner = ""
                                 /\ p.categories = <<>> /\ p.tags = <<>>
                                 /\ p.kind = "project" /\ p.status = "active"

\* the fields other than oneLiner: the descriptor's value when the field is
\* present, the documented default when it is missing
PlainFieldsFollow(p, name, md) ==
    /\ IF "id" \in DOMAIN md THEN p.id = md["id"] ELSE p.id = name
    /\ IF "title" \in DOMAIN md THEN p.title = md["title"] ELSE p.title = name
    /\ p.categories = (IF "categories" \in DOMAIN md THEN md["categories"] ELSE <<>>)
    /\ p.tags = (IF "tags" \in DOMAIN md THEN md["tags"] ELSE <<>>)
    /\ p.kind = (IF "kind" \in DOMAIN md THEN md["kind"] ELSE "project")
    /\ p.status = (IF "status" \in DOMAIN md THEN md["status"] ELSE "active")

\* C15 as stated: every missing field has its default, oneLiner being the
\* description if present and else empty, and every present field, oneLiner
\* included, is the descriptor's value.
C15_PresentFieldsTaken ==
    (ScanReturned /\ Len(folders) = 1 /\ folders[1].catalogue.st = "object") =>
        LET md == folders[1].catalogue.md
            p == projects[1]
        IN  /\ Len(projects) = 1
            /\ PlainFieldsFollow(p, folders[1].name, md)
            /\ p.oneLiner = (IF "oneLiner" \in DOMAIN md THEN md["oneLiner"]
                             ELSE IF "description" \in DOMAIN md THEN md["description"]
                             ELSE "")

\* C15 amended: as above, except that oneLiner is the descriptor's value only
\* when it is present and not empty; when it is missing or empty, oneLiner is
\* the description if present and else the empty string.
C15_DefaultsForMissingFields ==
    (ScanReturned /\ Len(folders) = 1 /\ folders[1].catalogue.st = "object") =>
        LET md == folders[1].catalogue.md
            p == projects[1]
        IN  /\ Len(projects) = 1
            /\ PlainFieldsFollow(p, folders[1].name, md)
            /\ p.oneLiner = (IF "oneLiner" \in DOMAIN md /\ md["oneLiner"] # ""
                             THEN md["oneLiner"]
                             ELSE IF "description" \in DOMAIN md THEN md["description"]
                             ELSE "")

\* C15 witness: a descriptor without id and status, with an empty oneLiner
\* and a description, was scanned; the project shows the description
C15_Witness ==
    /\ pc = "scanned"
    /\ Len(folders) = 1 /\ Len(projects) = 1
    /\ folders[1].catalogue.st = "object"
    /\ LET md == folders[1].catalogue.md
       IN  /\ DOMAIN md = RecognizedFields \ {"id", "status"}
           /\ md["oneLiner"] = "" /\ md["description"] = "D"
    /\ projects[1].oneLiner = "D"
    /\ projects[1].id = 1 /\ projects[1].status = "active"

\* both executions ran the same method for different paths, both read the
\* file before either opened it for writing, and both have finished
BothReadFirst ==
    /\ \A h \in Handlers : inflight.run[h].pc = "done"
    /\ inflight.run[1].op = inflight.run[2].op
    /\ inflight.run[1].path # inflight.run[2].path
    /\ inflight.events[1][1] = "read" /\ inflight.events[2][1] = "read"

\* the later writer is the execution that writes to the file last, which it
\* does when it closes the file
LastWriter == inflight.events[Len(inflight.events)][2]
LaterWriter == inflight.run[LastWriter]
EarlierWriter == inflight.run[3 - LastWriter]

\* the later writer opened the file before the earlier writer closed it
WritesOverlap ==
    \E i, j \in 1 .. Len(inflight.events) :
        /\ i < j
        /\ inflight.events[i] = <<"truncate", LastWriter>>
        /\ inflight.events[j][2] = 3 - LastWriter

C18_ListsIndependent ==
    /\ IsToggle => recentFile = prev.recent
    /\ IsOpen => pinnedFile = prev.pinned

\* C18 witness: a toggle-pin request changed the pinned list while the
\* recent-open log, filled by an earlier open, stayed as it was
C18_Witness ==
    /\ IsToggle
    /\ resp.code = 200
    /\ pinnedFile # prev.pinned
    /\ LoadList(recentFile) # <<>>
    /\ recentFile = prev.recent

\* C19: once the generator has ended, no request changes what it generated
\* or dashboard.html; the file is the document this run generated when it
\* wrote one; and a GET / is answered from that file as it is (200 with the
\* document, or 304 without body), whatever toggle-pin and open-in-cursor
\* requests came before, and 404 when there is no file.
C19_NoRequestRegenerates ==
    [][Serving =>
          /\ dashVars' = dashVars
          /\ pc = "written" => dashboardFile = HtmlFile(Document)
          /\ req'.endpoint = "/" =>
                IF dashboardFile.st = "html"
                THEN /\ resp'.code \in {200, 304}
                     /\ resp'.code = 200 => resp'.body = dashboardFile.data
                ELSE resp'.code = 404]_vars

\* C19 witness: GET / after a toggle-pin: the scanned folder 1 is in the
\* persisted pinned list, the pinned group of the document served, the one
\* this run generated, is empty
C19_Witness ==
    /\ pc = "written"
    /\ req.endpoint = "/"
    /\ resp.code = 200
    /\ resp.body = Document
    /\ resp.body.pinned = <<>>
    /\ InList(1, LoadList(pinnedFile))
    /\ \E p \in Range(projects) : p.path = 1

\* the file's text is this list
Holds(file, list) == file.st \in {"json", "unreadable"} /\ file.data = list

\* C20 as stated: a toggle-pin request with a non-empty path p against a
\* pinned file that is absent, cannot be read or is not JSON is answered 200
\* with pinned=true and leaves the file holding exactly [p].
C20_BadFileIsEmptyList ==
    (IsToggle /\ req.path # NoPath
        /\ prev.pinned.st \in {"absent", "uncreatable", "garbage", "readonly_garbage",
                               "unreadable", "noaccess", "directory"}) =>
        /\ resp = JsonResponse(200, [status |-> "ok", pinned |-> TRUE])
        /\ Holds(pinnedFile, <<req.path>>)

\* C20 amended: so it is when the file can be opened for writing: an absent
\* file in a directory that allows a new file, a file that is not JSON and
\* can be written, a file that cannot be read but can be written; the file
\* keeps its mode, so the one that could not be read still cannot and the
\* same request again is answered pinned=true again.  When the file cannot be
\* opened for writing (a read-only file that is not JSON, a file that allows
\* neither reading nor writing, a directory of that name, no file in a
\* directory that allows none) the request gets no response and the file
\* stays as it was.
C20_BadWritableFileIsEmptyList ==
    (IsToggle /\ req.path # NoPath) =>
        /\ prev.pinned.st \in {"absent", "garbage", "unreadable"} =>
              /\ resp = JsonResponse(200, [status |-> "ok", pinned |-> TRUE])
              /\ Holds(pinnedFile, <<req.path>>)
              /\ (pinnedFile.st = "unreadable") = (prev.pinned.st = "unreadable")
        /\ prev.pinned.st \in {"readonly_garbage", "noaccess", "directory",
                               "uncreatable"} =>
              /\ resp = NoResponse
              /\ pinnedFile = prev.pinned

\* C20 witness: a second toggle-pin request for path 1 met the pinned file
\* that cannot be read and holds [1] since the first, was answered 200 with
\* pinned=true and left [1] in the file
C20_Witness ==
    /\ IsToggle
    /\ req.path = 1
    /\ prev.pinned = WriteList(UnreadableFile, <<1>>)
    /\ resp = JsonResponse(200, [status |-> "ok", pinned |-> TRUE])
    /\ pinnedFile = prev.pinned

====
